---- MODULE Spec2Model ----
(***************************************************************************)
(* The dashboard pages of hyprian/Signup_front as a state machine.         *)
(*                                                                         *)
(* State: the Streamlit session (st.session_state: api_status, api_logs,   *)
(* the per-page settings copies), the st.cache_data entries of the two     *)
(* fetch_main_settings_from_api functions, the backend's settings          *)
(* document, and what the front end currently shows (which controls can    *)
(* be pressed, whether a rerun is scheduled).                              *)
(*                                                                         *)
(* One action is one run of a page script, from its first line to the      *)
(* st.rerun(), st.stop(), uncaught exception or time.sleep() that ends it; *)
(* the HTTP responses the run receives and the control the user pressed    *)
(* are its inputs.                                                         *)
(*                                                                         *)
(* Abstractions: the HH:MM:SS stamps that time.strftime puts into details  *)
(* and marker lines are left out of the strings; a status document has the *)
(* four keys of the API contract; JSON null is the string "null" and a     *)
(* missing key is the string "ABSENT".                                     *)
(***************************************************************************)
EXTENDS Integers, Sequences, FiniteSets, TLC

\* ------------------------------------------------------------ constants

FullFlowIntervalActive == 1
FullFlowIntervalIdle == 10
ConsistencyIntervalActive == 3
ConsistencyIntervalIdle == 30
DeleteIntervalActive == 3
DeleteIntervalIdle == 30

\* Longest api_logs list the model lets the Stop handlers' append build.
MaxLogLines == 2

Absent == "ABSENT"
Null == "null"

PageFullFlow == "full_flow"
PageConsistency == "consistency"
PageDelete == "delete"
Pages == {PageFullFlow, PageConsistency, PageDelete}

\* The pages without worker controls: pages/5_Full_Flow_Config.py and
\* 1_Summary_Dashboard.py.
PageConfig == "config"
PageSummary == "summary"

\* TaskIdentity of a page: the task_type its Run control starts.
TaskOf(p) == p

\* The seven lifecycle phases of the spec's WorkerStatus.
WorkerStates == {"unknown", "idle", "running", "starting", "stopping", "stopped", "error"}
ActiveStates == {"running", "starting", "stopping"}

\* ------------------------------------------------------------ status documents

StatusDoc(state, task, details, last_update) ==
    [state |-> state, task |-> task, details |-> details, last_update |-> last_update]

\* dict.get(key): a missing key and a JSON null both read as None.
Get(v) == IF v = Absent THEN Null ELSE v

InitializingStatus == StatusDoc("unknown", Null, "Initializing...", Null)
ConnectingStatus == StatusDoc("unknown", Null, "Connecting...", Null)
ErrorStatus(details) == StatusDoc("error", Absent, details, Absent)

\* The exception classes a requests call ends with.  response.json() on a body
\* that is not JSON raises requests.exceptions.JSONDecodeError (a
\* RequestException) with requests >= 2.27 and json.JSONDecodeError before:
\* both builds are kept.
RequestExceptions == {"ConnectionError", "ReadTimeout", "HTTPError", "JSONDecodeError"}
JsonDecodeError == "json.JSONDecodeError"

\* type(e).__name__
ExceptionName(kind) == kind

\* A /status response: kind "dict" (a JSON object, body holds its keys), "other"
\* (JSON that is no object), or the exception the call raised; text is str() of
\* the parsed JSON.
StatusResponse(kind, body, text) == [kind |-> kind, body |-> body, text |-> text]
NoBody == StatusDoc(Absent, Absent, Absent, Absent)

fetch_status_from_api_merging(has_status, status, resp) ==
    LET cur == IF has_status THEN status ELSE ConnectingStatus
    IN  CASE resp.kind = "dict" /\ resp.body.state # Absent ->
                 [status |-> [k \in DOMAIN cur |->
                                 IF resp.body[k] = Absent THEN cur[k] ELSE resp.body[k]],
                  ret |-> TRUE]
          [] resp.kind \in {"dict", "other"} ->
                 [status |-> ErrorStatus("Invalid status format: " \o resp.text),
                  ret |-> FALSE]
          [] resp.kind \in RequestExceptions ->
                 [status |-> [cur EXCEPT
                                 !.details = "Status Fetch Fail: " \o ExceptionName(resp.kind),
                                 !.state = "error"],
                  ret |-> FALSE]
          [] OTHER ->
                 [status |-> ErrorStatus("Invalid JSON status."), ret |-> FALSE]

fetch_status_from_api_updating(has_status, status, resp) ==
    LET cur == IF has_status THEN status ELSE ConnectingStatus
    IN  CASE resp.kind = "dict" /\ resp.body.state # Absent ->
                 [status |-> resp.body, ret |-> TRUE]
          [] resp.kind \in {"dict", "other"} ->
                 [status |-> [cur EXCEPT
                                 !.details = "Invalid status format: " \o resp.text,
                                 !.state = "error"],
                  ret |-> FALSE]
          [] resp.kind \in RequestExceptions ->
                 [status |-> [cur EXCEPT
                                 !.details = "Status Fetch Fail: " \o ExceptionName(resp.kind),
                                 !.state = "error"],
                  ret |-> FALSE]
          [] OTHER ->
                 [status |-> ErrorStatus("Invalid JSON status."), ret |-> FALSE]

fetch_status_from_api_replacing(has_status, status, resp) ==
    LET cur == IF has_status THEN status ELSE ConnectingStatus
    IN  CASE resp.kind = "dict" /\ resp.body.state # Absent ->
                 [status |-> resp.body, ret |-> TRUE]
          [] resp.kind \in {"dict", "other"} ->
                 [status |-> ErrorStatus("Invalid status format: " \o resp.text),
                  ret |-> FALSE]
          [] resp.kind \in RequestExceptions ->
                 [status |-> ErrorStatus("Status Fetch Fail: " \o ExceptionName(resp.kind)),
                  ret |-> FALSE]
          [] OTHER ->
                 [status |-> ErrorStatus("Invalid JSON status."), ret |-> FALSE]

\* fetch_status_from_api: the new st.session_state.api_status and the value
\* returned.  has_status: whether the key was in the session before the call.
fetch_status_from_api(has_status, status, resp) ==
    LET cur == IF has_status THEN status ELSE ConnectingStatus
    IN  CASE resp.kind = "dict" /\ resp.body.state # Absent ->
                 [status |-> resp.body, ret |-> TRUE]
          [] resp.kind \in {"dict", "other"} ->
                 [status |-> ErrorStatus("Invalid status format: " \o resp.text),
                  ret |-> FALSE]
          [] resp.kind \in RequestExceptions ->
                 [status |-> [cur EXCEPT
                                 !.details = "Status Fetch Fail: " \o ExceptionName(resp.kind),
                                 !.state = "error"],
                  ret |-> FALSE]
          [] OTHER ->
                 [status |-> ErrorStatus("Invalid JSON status."), ret |-> FALSE]

\* ------------------------------------------------------------ log buffer

IdleMarker == "--- Bot is idle ---"
InitializingLogs == <<"--- Initializing logs ---">>
WaitingLogs == <<"--- Waiting for task ---">>
InvalidFormatLogs == <<"--- Error: Invalid log format ---">>
InvalidJsonLogs == <<"--- Error: Invalid JSON logs ---">>
SendingStart(task) == "--- Sending 'start " \o task \o "' command ---"
SendingStop == "--- Sending 'stop' command ---"

\* A /logs response: kind "logs" (an object whose `logs` is a list, in lines),
\* "other" (any other JSON), or the exception the call raised.
LogsResponse(kind, lines) == [kind |-> kind, lines |-> lines]

fetch_logs_from_api_clearing(has_logs, logs, resp) ==
    LET cur == IF has_logs THEN logs ELSE WaitingLogs
    IN  CASE resp.kind = "logs" -> [logs |-> resp.lines, ret |-> TRUE]
          [] resp.kind = "other" -> [logs |-> InvalidFormatLogs, ret |-> FALSE]
          [] resp.kind \in RequestExceptions -> [logs |-> InvalidFormatLogs, ret |-> FALSE]
          [] OTHER -> [logs |-> InvalidJsonLogs, ret |-> FALSE]

\* fetch_logs_from_api: the new st.session_state.api_logs and the value returned.
fetch_logs_from_api(has_logs, logs, resp) ==
    LET cur == IF has_logs THEN logs ELSE WaitingLogs
    IN  CASE resp.kind = "logs" -> [logs |-> resp.lines, ret |-> TRUE]
          [] resp.kind = "other" -> [logs |-> InvalidFormatLogs, ret |-> FALSE]
          [] resp.kind \in RequestExceptions -> [logs |-> cur, ret |-> FALSE]
          [] OTHER -> [logs |-> InvalidJsonLogs, ret |-> FALSE]

\* ------------------------------------------------------------ control commands

NoneStr == "<None>"

\* A /control response: "ack" (2xx, a JSON object), "ack_other" (2xx, JSON that is
\* no object), "http_error_json" (non-2xx whose body is a JSON object),
\* "http_error_text" (non-2xx, any other body), or the exception the call raised.
ControlKinds == {"ack", "ack_other", "http_error_json", "http_error_text",
                 "ConnectionError", "ReadTimeout", "JSONDecodeError", JsonDecodeError}

\* send_control_command: what the call hands back.  ret is "pair" for a
\* (result, error) tuple and "none" when the function falls off its end; value is
\* "dict", "other" or NoneStr.
send_control_command(p, kind) ==
    CASE kind = "ack" -> [ret |-> "pair", value |-> "dict", error |-> NoneStr]
      [] kind = "ack_other" -> [ret |-> "pair", value |-> "other", error |-> NoneStr]
      [] kind = "http_error_json" ->
             IF p = PageDelete
             THEN [ret |-> "none", value |-> NoneStr, error |-> NoneStr]
             ELSE [ret |-> "pair", value |-> NoneStr,
                   error |-> "API Error: HTTPError: backend error"]
      [] kind = "http_error_text" ->
             [ret |-> "pair", value |-> NoneStr, error |-> "API Error: HTTPError"]
      [] kind \in RequestExceptions ->
             [ret |-> "pair", value |-> NoneStr,
              error |-> "API Error: " \o ExceptionName(kind)]
      [] OTHER -> [ret |-> "pair", value |-> NoneStr, error |-> "Invalid JSON response."]

\* `result, error = send_control_command(...)` followed by `if error: ... else:
\* result.get("message", ...)`: whether the handler raises instead of going on.
HandlerRaises(c) == c.ret = "none" \/ (c.error = NoneStr /\ c.value # "dict")

\* ------------------------------------------------------------ settings documents

NoneValue == [kind |-> "None"]

MainDoc(ids, threads, pixelscan, trust, to_delete) ==
    [kind |-> "dict", profiles_score_check |-> ids, score_check_threads |-> threads,
     pixelscan_check |-> pixelscan, trust_score_check |-> trust,
     profiles_to_delete |-> to_delete]

\* The JSON document {}.
EmptyDoc == [kind |-> "empty_dict"]

\* Truthiness of a settings value (`if not settings_data`).
Truthy(v) == v.kind = "dict"

NotCached == [hit |-> FALSE, data |-> NoneValue, error |-> NoneStr]
Cached(r) == [hit |-> TRUE, data |-> r.data, error |-> r.error]

\* A GET /settings/main response: "json" (2xx, value is the parsed body) or the
\* exception the call raised.
SettingsResponse(kind, value) == [kind |-> kind, value |-> value]

\* fetch_main_settings_from_api without its cache: (settings_data, error).
fetch_main_settings_from_api(p, resp) ==
    CASE resp.kind = "json" -> [data |-> resp.value, error |-> NoneStr]
      [] resp.kind \in {"JSONDecodeError", JsonDecodeError} ->
             [data |-> NoneValue,
              error |-> IF p = PageConsistency THEN "Invalid JSON response from API."
                        ELSE "Invalid JSON response."]
      [] OTHER -> [data |-> NoneValue, error |-> "API Error: " \o ExceptionName(resp.kind)]

\* fetch_full_flow_settings_from_api without its cache: (settings_data, error).
fetch_full_flow_settings_from_api(resp) ==
    CASE resp.kind = "json" -> [data |-> resp.value, error |-> NoneStr]
      [] resp.kind \in {"JSONDecodeError", JsonDecodeError} ->
             [data |-> NoneValue, error |-> "Invalid JSON response from API."]
      [] OTHER -> [data |-> NoneValue, error |-> "API Error: " \o ExceptionName(resp.kind)]

\* @st.cache_data: the stored return value while the entry lives, else the call.
CachedFetch(p, cache, resp) ==
    IF cache.hit THEN [data |-> cache.data, error |-> cache.error]
    ELSE IF p = PageConfig THEN fetch_full_flow_settings_from_api(resp)
    ELSE fetch_main_settings_from_api(p, resp)

\* save_main_settings_via_api: whether the save counts as saved.  A POST whose 2xx
\* body is not JSON is reported as not saved although the backend stored it.
SaveKinds == {"ok", "ok_not_json", "ConnectionError", "HTTPError"}
save_main_settings_via_api(kind) == kind = "ok"
SaveStored(kind) == kind \in {"ok", "ok_not_json"}

\* ------------------------------------------------------------ state

VARIABLES
    page,                           \* the page whose script ran last ("none" at first)
    session_keys,                   \* which of api_status, api_logs are in st.session_state
    api_status,                     \* st.session_state.api_status
    api_logs,                       \* st.session_state.api_logs
    consistency_current_settings,   \* st.session_state.consistency_current_settings
    consistency_fetch_error,        \* st.session_state.consistency_fetch_error
    delete_current_settings,        \* st.session_state.delete_current_settings
    delete_fetch_error,             \* st.session_state.delete_fetch_error
    cache_consistency,              \* st.cache_data entry of the Consistency page's fetch
    cache_delete,                   \* st.cache_data entry of the Delete page's fetch
    full_flow_current_settings,     \* st.session_state.full_flow_current_settings
    full_flow_fetch_error,          \* st.session_state.full_flow_fetch_error
    cache_full_flow,                \* st.cache_data entry of fetch_full_flow_settings_from_api
    cache_summary,                  \* st.cache_data entry of fetch_summary_data_from_api
    server_main,                    \* the backend's /settings/main document
    server_full_flow,               \* the backend's /settings/full_flow document
    widgets,                        \* the keyed form widgets st.session_state holds
    settings_log,                   \* the last load, save or cache event, when traced
    ui,                             \* the controls the last run left pressable
    cycle,                          \* what the last script run did
    lastPoll,                       \* the last fetch_status_from_api call, when traced
    lastLogs,                       \* the last fetch_logs_from_api call, when traced
    lastControl,                    \* the last send_control_command call, when traced
    secrets,                        \* which of SIGNUP_API_URL, SIGNUP_API_KEY st.secrets holds
    worker                          \* the state and task of the backend's worker

sessionVars == <<session_keys, api_status, api_logs>>
settingsVars == <<consistency_current_settings, consistency_fetch_error,
                  delete_current_settings, delete_fetch_error,
                  full_flow_current_settings, full_flow_fetch_error,
                  cache_consistency, cache_delete, cache_full_flow, cache_summary,
                  server_main, server_full_flow, settings_log>>
traceVars == <<lastPoll, lastLogs, lastControl>>
worldVars == <<secrets, worker>>
vars == <<page, session_keys, api_status, api_logs, consistency_current_settings,
          consistency_fetch_error, delete_current_settings, delete_fetch_error,
          full_flow_current_settings, full_flow_fetch_error,
          cache_consistency, cache_delete, cache_full_flow, cache_summary,
          server_main, server_full_flow, widgets, settings_log,
          ui, cycle, lastPoll, lastLogs, lastControl, secrets, worker>>

\* st.secrets with both SIGNUP_API_URL and SIGNUP_API_KEY set.
Configured == [url |-> TRUE, key |-> TRUE]
\* The worker at rest.
IdleWorker == [state |-> "idle", task |-> Null]

WidgetsOf_clear_on_submit(p, values) == [page |-> "none"]

\* No keyed widget is in st.session_state.
NoWidgets == [page |-> "none"]
\* The widgets of page p's form with their values.
WidgetsOf(p, values) == [page |-> p, values |-> values]

\* A settings event: op is "load", "save", "retry", "reload" or "expire"; via is
\* "network" when the call issued an HTTP request and "cache" when st.cache_data
\* answered; before is the client state the event found and prev the event
\* before it.
NoEvent == [op |-> "none", page |-> "-", ok |-> FALSE]

NoControls == [auto |-> FALSE, run |-> FALSE, stop |-> FALSE, refresh |-> FALSE,
               retry |-> FALSE, save |-> FALSE, confirm |-> FALSE, reload |-> FALSE]
RerunPending == [NoControls EXCEPT !.auto = TRUE]

NoBelief == [shown_state |-> "-", shown_task |-> "-", polled_task |-> "-"]
NoCommand == [action |-> "none", task_type |-> "-", belief |-> NoBelief]
NoCycle == [page |-> "none", click |-> "-", end |-> "-", polled |-> "-", interval |-> 0,
            sent |-> NoCommand, reqs |-> {}]

NoPoll == [called |-> FALSE, resp |-> StatusResponse("-", NoBody, "-"),
           before |-> NoBody, after |-> NoBody, ret |-> FALSE]
NoLogs == [called |-> FALSE, resp |-> LogsResponse("-", <<>>),
           before |-> <<>>, after |-> <<>>, ret |-> FALSE]
NoControl == [called |-> FALSE, page |-> "-", kind |-> "-",
              out |-> [ret |-> "-", value |-> NoneStr, error |-> NoneStr]]

\* Whether the front end lets the user do `click` on page p now: opening a page
\* is always possible, a scheduled rerun ("auto") comes by itself, and a control
\* can be pressed when the last run of the page left it on screen and enabled.
CanClick(p, click) ==
    \/ click = "open"
    \/ /\ page = p
       /\ CASE click = "auto" -> ui.auto
            [] click = "run" -> ui.run
            [] click = "tick" -> ui.confirm
            [] click = "stop" -> ui.stop
            [] click = "refresh" -> ui.refresh
            [] click = "retry" -> ui.retry
            [] click = "save" -> ui.save
            [] click = "reload" -> ui.reload
            [] OTHER -> FALSE

\* ------------------------------------------------------------ one script run

\* The session as a run sees it: hs/hl tell whether api_status / api_logs are set.
RunState(hs, st, hl, lg) == [hs |-> hs, st |-> st, hl |-> hl, lg |-> lg, reqs |-> {}]

SessionNow ==
    RunState("api_status" \in session_keys, api_status, "api_logs" \in session_keys, api_logs)

\* A call of fetch_status_from_api within a run.
Poll(s, resp) ==
    [s EXCEPT !.hs = TRUE, !.st = fetch_status_from_api(s.hs, s.st, resp).status]

\* A call of fetch_logs_from_api within a run; `why` is the code path that issued
\* it and the request is recorded with the state believed at that moment.
Logs(s, resp, why) ==
    [s EXCEPT !.hl = TRUE, !.lg = fetch_logs_from_api(s.hl, s.lg, resp).logs,
              !.reqs = @ \cup {[why |-> why, state |-> s.st.state]}]

CommandSent(action, task_type, polled) ==
    [action |-> action, task_type |-> task_type,
     belief |-> [shown_state |-> IF "api_status" \in session_keys THEN api_status.state
                                 ELSE Absent,
                 shown_task |-> IF "api_status" \in session_keys THEN Get(api_status.task)
                                ELSE Absent,
                 polled_task |-> Get(polled.task)]]

\* The end of a run: the session it leaves, the controls it leaves pressable and
\* the record of what it did.
EndRun(p, click, s, end, polled, interval, sent, controls) ==
    /\ page' = p
    /\ session_keys' = (IF s.hs THEN {"api_status"} ELSE {}) \cup
                       (IF s.hl THEN {"api_logs"} ELSE {})
    /\ api_status' = s.st
    /\ api_logs' = s.lg
    /\ ui' = controls
    /\ cycle' = [page |-> p, click |-> click, end |-> end, polled |-> polled,
                 interval |-> interval, sent |-> sent, reqs |-> s.reqs]
    /\ UNCHANGED <<traceVars, worldVars>>

\* The tail of a Run or Stop handler: send_control_command, then, unless the
\* handler raised, fetch_status_from_api(); fetch_logs_from_api(); st.rerun().
ControlHandler(p, click, s, env, polled, sent) ==
    \E c \in env.control :
        IF HandlerRaises(send_control_command(p, c))
        THEN EndRun(p, click, s, "exception", polled.state, 0, sent, NoControls)
        ELSE \E r2 \in env.status2, lr2 \in env.logs :
                 EndRun(p, click, Logs(Poll(s, r2), lr2, "control"), "rerun",
                        polled.state, 0, sent, RerunPending)

\* The "Refresh Status & Logs" handler: the logs are fetched only when the status
\* just fetched is active.
RefreshHandler(p, click, s, env, polled) ==
    \E r2 \in env.status2 :
        LET s2 == Poll(s, r2)
        IN  IF s2.st.state \in ActiveStates
            THEN \E lr2 \in env.logs :
                     EndRun(p, click, Logs(s2, lr2, "refresh"), "rerun", polled.state, 0,
                            NoCommand, RerunPending)
            ELSE EndRun(p, click, s2, "rerun", polled.state, 0, NoCommand, RerunPending)

\* ------------------------------------------------------------ what the pages derive

is_any_task_running_always(state) == TRUE

is_any_task_running(state) == state \in ActiveStates

is_this_task_running(p, state, task) == state \in ActiveStates /\ task = TaskOf(p)

run_disabled_never(p, state, settings) == FALSE

\* run_disabled of page p for the status just fetched and the loaded settings.
run_disabled(p, state, settings) ==
    CASE p = PageFullFlow -> is_any_task_running(state)
      [] p = PageConsistency ->
             \/ state \notin {"idle", "error", "stopped"}
             \/ settings.profiles_score_check = <<>>
             \/ ~(settings.pixelscan_check \/ settings.trust_score_check)
      [] OTHER ->
             \/ state \notin {"idle", "error", "stopped"}
             \/ settings.profiles_to_delete = <<>>

stop_offered_always(p, state, task) == TRUE

\* Whether the run renders an enabled Stop control (not stop_disabled; on the
\* Delete page, whether the Stop button is rendered at all).
stop_offered(p, state, task) ==
    IF p = PageFullFlow THEN is_any_task_running(state)
    ELSE is_this_task_running(p, state, task)

\* The seconds the run sleeps before st.rerun().
refresh_interval(p, state, task) ==
    CASE p = PageFullFlow ->
             IF is_any_task_running(state) THEN FullFlowIntervalActive
             ELSE FullFlowIntervalIdle
      [] p = PageConsistency ->
             IF is_this_task_running(p, state, task) THEN ConsistencyIntervalActive
             ELSE ConsistencyIntervalIdle
      [] OTHER ->
             IF is_this_task_running(p, state, task) THEN DeleteIntervalActive
             ELSE DeleteIntervalIdle

\* The interval the page sleeps when no task is active.
IdleInterval(p) ==
    CASE p = PageFullFlow -> FullFlowIntervalIdle
      [] p = PageConsistency -> ConsistencyIntervalIdle
      [] OTHER -> DeleteIntervalIdle

\* st.button of a Run control: the press reaches the script only if the button
\* is created again with the arguments it was pressed with, and its `type`
\* argument follows run_disabled.
RunPressed(click, disabled) == click = "run" /\ ~disabled

\* The value st.checkbox(..., value=False, key="delete_confirm_cb") returns in
\* the run of a Run press.  The Delete page creates the checkbox only inside
\* the branch of the pressed button, so the run that creates it is the run of
\* the press and the box is new and unticked; a tick arrives as a run of its
\* own ("tick"), in which the button reads False and the box is not created.
\* The other pages ask for no confirmation.
delete_confirm_cb(p, click) == p # PageDelete

\* st.button of a Stop control of the Full Flow and Consistency pages: `disabled`
\* is no part of the button's identity, so a press made while the control was
\* enabled reaches the run whatever stop_disabled is by then.  The Delete page
\* creates its Stop button only while its task is running.
StopPressed(p, click, offered) == click = "stop" /\ (p # PageDelete \/ offered)

\* The mid-page controls a run leaves pressable when it gets as far as them.
ControlsShown(p, state, task, settings) ==
    [NoControls EXCEPT !.run = ~run_disabled(p, state, settings),
                       !.stop = stop_offered(p, state, task),
                       !.save = p # PageFullFlow]

\* str.upper() of the state for the status line raises on a state that is no string.
DisplayRaises(state) == state = Null

\* ------------------------------------------------------------ Run Full Flow page

\* The idle-marker reset of the Run Full Flow page (the caller has checked that
\* the list has a first element).
idle_reset(state, logs) ==
    IF state \in {"idle", "stopped"} /\ Head(logs) # IdleMarker THEN <<IdleMarker>> ELSE logs

\* The page from its control buttons on, s being the session after the status
\* and log fetch at its top.
FullFlowControls(click, s, env) ==
    LET p == PageFullFlow
        state == s.st.state
        task == Get(s.st.task)
        shown == ControlsShown(p, state, task, NoneValue)
    IN  IF RunPressed(click, run_disabled(p, state, NoneValue))
        THEN ControlHandler(p, click, [s EXCEPT !.lg = <<SendingStart(TaskOf(p))>>], env,
                            s.st, CommandSent("start", TaskOf(p), s.st))
        ELSE IF StopPressed(p, click, shown.stop)
        THEN /\ Len(s.lg) < MaxLogLines
             /\ ControlHandler(p, click, [s EXCEPT !.lg = Append(@, SendingStop)], env,
                               s.st, CommandSent("stop", "-", s.st))
        ELSE IF DisplayRaises(state)
        THEN EndRun(p, click, s, "exception", state, 0, NoCommand, shown)
        ELSE IF click = "refresh"
        THEN RefreshHandler(p, click, s, env, s.st)
        ELSE EndRun(p, click, s, "sleep", state, refresh_interval(p, state, task), NoCommand,
                    [shown EXCEPT !.auto = TRUE, !.refresh = TRUE])

\* One run of pages/2_Run_Full_Flow.py.
RenderFullFlow(click, env) ==
    /\ click \in {"open", "auto", "run", "stop", "refresh"}
    /\ CanClick(PageFullFlow, click)
    /\ UNCHANGED settingsVars
    /\ widgets' = NoWidgets
    /\ \E r1 \in env.status :
           LET s0 == RunState(TRUE,
                              IF "api_status" \in session_keys THEN api_status
                              ELSE InitializingStatus,
                              TRUE,
                              IF "api_logs" \in session_keys THEN api_logs
                              ELSE InitializingLogs)
               s1 == Poll(s0, r1)
               state == s1.st.state
           IN  IF ~secrets.url
               THEN EndRun(PageFullFlow, click, s0, "stop", "-", 0, NoCommand, NoControls)
               ELSE IF is_any_task_running(state)
               THEN \E lr1 \in env.logs : FullFlowControls(click, Logs(s1, lr1, "auto"), env)
               ELSE IF state \in {"idle", "stopped"} /\ s1.lg = <<>>
               THEN EndRun(PageFullFlow, click, s1, "exception", state, 0, NoCommand,
                           NoControls)
               ELSE FullFlowControls(click, [s1 EXCEPT !.lg = idle_reset(state, @)], env)

\* ------------------------------------------------------------ settings pages

MAX_THREADS_CONSISTENCY == 10

CurrentSettings(p) ==
    CASE p = PageConsistency -> consistency_current_settings
      [] p = PageDelete -> delete_current_settings
      [] OTHER -> full_flow_current_settings
FetchError(p) ==
    CASE p = PageConsistency -> consistency_fetch_error
      [] p = PageDelete -> delete_fetch_error
      [] OTHER -> full_flow_fetch_error
\* The entries of st.cache_data, by the page whose function they belong to.
Caches ==
    [consistency |-> cache_consistency, delete |-> cache_delete,
     config |-> cache_full_flow, summary |-> cache_summary]
CacheOf(p) == Caches[p]
OtherPage(p) == IF p = PageConsistency THEN PageDelete ELSE PageConsistency
CachesWith(p, entry) == [Caches EXCEPT ![p] = entry]

cache_data_clear_nothing(p, caches) == caches

\* st.cache_data.clear() called by page p: every cached function of the app
\* loses its entries.
cache_data_clear(p, caches) == [c \in DOMAIN caches |-> NotCached]

\* The document page p loads and saves.
ServerDoc(p) == IF p = PageConfig THEN server_full_flow ELSE server_main

NoOutcome == [data |-> NoneValue, error |-> NoneStr]
\* What the client holds for page p when an event starts.
ClientState(p) ==
    [cur |-> CurrentSettings(p), err |-> FetchError(p), caches |-> Caches,
     widgets |-> widgets]
Event(op, p, via, kind, ok, out, submitted, payload) ==
    [op |-> op, page |-> p, via |-> via, kind |-> kind, ok |-> ok, out |-> out,
     submitted |-> submitted, payload |-> payload, before |-> ClientState(p),
     prev |-> [op |-> settings_log.op, page |-> settings_log.page,
               ok |-> settings_log.ok]]
LoadEvent(p, hit, kind, f) ==
    Event("load", p, IF hit THEN "cache" ELSE "network", IF hit THEN "-" ELSE kind,
          f.error = NoneStr /\ f.data # NoneValue, f, NoWidgets, NoneValue)
SaveEvent(p, kind, ok, submitted, payload) ==
    Event("save", p, "network", kind, ok, NoOutcome, submitted, payload)
PlainEvent(op, p) == Event(op, p, "-", "-", TRUE, NoOutcome, NoWidgets, NoneValue)
\* Events are recorded only in the runs that trace them.
Traced(trace, event) == IF trace THEN event ELSE NoEvent

\* The settings side of the state after a run of page p: its session copy and
\* fetch error, the cache entries, the backend copy of its document and the
\* event the run is recorded with.
SettingsAfter(p, cur, err, caches, server, event) ==
    /\ settings_log' = event
    /\ cache_consistency' = caches.consistency
    /\ cache_delete' = caches.delete
    /\ cache_full_flow' = caches.config
    /\ cache_summary' = caches.summary
    /\ IF p = PageConfig
       THEN server_full_flow' = server /\ UNCHANGED server_main
       ELSE server_main' = server /\ UNCHANGED server_full_flow
    /\ CASE p = PageConsistency ->
                /\ consistency_current_settings' = cur
                /\ consistency_fetch_error' = err
                /\ UNCHANGED <<delete_current_settings, delete_fetch_error,
                               full_flow_current_settings, full_flow_fetch_error>>
         [] p = PageDelete ->
                /\ delete_current_settings' = cur
                /\ delete_fetch_error' = err
                /\ UNCHANGED <<consistency_current_settings, consistency_fetch_error,
                               full_flow_current_settings, full_flow_fetch_error>>
         [] OTHER ->
                /\ full_flow_current_settings' = cur
                /\ full_flow_fetch_error' = err
                /\ UNCHANGED <<consistency_current_settings, consistency_fetch_error,
                               delete_current_settings, delete_fetch_error>>

\* The load block at the top of a settings page, entered when the session copy
\* is None: fetch through st.cache_data, store the error or the document, and
\* st.rerun() before anything else is rendered.
LoadSettings(p, kind, trace) ==
    LET own == CacheOf(p)
        f == CachedFetch(p, own, SettingsResponse(kind, ServerDoc(p)))
        failed == f.error # NoneStr
    IN  /\ SettingsAfter(p, IF failed THEN CurrentSettings(p) ELSE f.data,
                         IF failed THEN f.error ELSE NoneStr,
                         CachesWith(p, Cached(f)), ServerDoc(p),
                         Traced(trace, LoadEvent(p, own.hit, kind, f)))
        /\ widgets' = NoWidgets

\* The widgets a run leaves in st.session_state when it ends in st.stop() or an
\* exception before its form is rendered: the ones of the page's earlier run
\* stay or are dropped, as the Streamlit build decides.
StaleWidgets(p, keep) == IF keep /\ widgets.page = p THEN widgets ELSE NoWidgets

\* str.strip() of a text-area line.
Strip(line) ==
    CASE line = " p2 " -> "p2"
      [] line = " " -> ""
      [] OTHER -> line

\* [line.strip() for line in text.splitlines() if line.strip()]
IdsFromTextarea(lines) ==
    LET kept == SelectSeq(lines, LAMBDA l : Strip(l) # "")
    IN  [i \in 1..Len(kept) |-> Strip(kept[i])]

\* "\n".join(map(str, ids)) as the text area shows it, line by line: joining
\* and splitting again loses one trailing empty entry.
JoinedLines(ids) ==
    IF Len(ids) > 0 /\ ids[Len(ids)] = "" THEN SubSeq(ids, 1, Len(ids) - 1) ELSE ids

\* The values the form widgets of page p take from the loaded settings
\* (`value=default_...`).
FormDefaults(p, settings) ==
    IF p = PageConsistency
    THEN [lines |-> JoinedLines(settings.profiles_score_check),
          threads |-> settings.score_check_threads,
          pixelscan |-> settings.pixelscan_check,
          trust |-> settings.trust_score_check]
    ELSE [lines |-> JoinedLines(settings.profiles_to_delete)]

\* The values the widgets hold in this run: a keyed widget that was on screen in
\* the page's last run keeps its value, a new one starts from its default.
FormWidgets(p, settings) ==
    IF widgets.page = p THEN widgets.values ELSE FormDefaults(p, settings)

\* The user leaves the fields as they are.
KeepWidgets == [keep |-> TRUE]

\* The widget values a Save press arrives with.
Submitted(p, settings, edit) ==
    CASE edit = KeepWidgets -> FormWidgets(p, settings)
      [] p = PageConsistency -> edit
      [] OTHER -> [lines |-> edit.lines]

\* The document the Save handler of page p posts: a copy of the loaded settings
\* with the page's keys taken from the widgets.
SavePayload(p, settings, edit) ==
    IF p = PageConsistency
    THEN [settings EXCEPT !.profiles_score_check = IdsFromTextarea(edit.lines),
                          !.score_check_threads = edit.threads,
                          !.pixelscan_check = edit.pixelscan,
                          !.trust_score_check = edit.trust]
    ELSE [settings EXCEPT !.profiles_to_delete = IdsFromTextarea(edit.lines)]

\* st.number_input raises when its value lies outside min_value..max_value.
FormRaises(p, settings) ==
    /\ p = PageConsistency
    /\ settings.score_check_threads \notin 1..MAX_THREADS_CONSISTENCY

\* A run that ends before the status is fetched: the session is left as it was.
EndEarly(p, click, end, controls) ==
    EndRun(p, click, SessionNow, end, "-", 0, NoCommand, controls)

\* The API config check at the top of every page: without SIGNUP_API_URL the run
\* shows the error and ends in st.stop(); a missing SIGNUP_API_KEY is a warning.
ConfigError(p, click, env) ==
    /\ UNCHANGED settingsVars
    /\ \E keep \in env.stale : widgets' = StaleWidgets(p, keep)
    /\ EndEarly(p, click, "stop", NoControls)

\* A settings page from fetch_status_from_api() on.
SettingsPageControls(p, click, settings, env) ==
    \E r1 \in env.status :
        LET s == Poll(SessionNow, r1)
            state == s.st.state
            task == Get(s.st.task)
            shown == ControlsShown(p, state, task, settings)
        IN  IF RunPressed(click, run_disabled(p, state, settings)) /\
               delete_confirm_cb(p, click)
            THEN ControlHandler(p, click,
                                [s EXCEPT !.hl = TRUE, !.lg = <<SendingStart(TaskOf(p))>>],
                                env, s.st, CommandSent("start", TaskOf(p), s.st))
            ELSE IF StopPressed(p, click, shown.stop)
            THEN IF ~s.hl
                 THEN EndRun(p, click, s, "exception", state, 0, NoCommand, shown)
                 ELSE /\ Len(s.lg) < MaxLogLines
                      /\ ControlHandler(p, click, [s EXCEPT !.lg = Append(@, SendingStop)],
                                        env, s.st, CommandSent("stop", "-", s.st))
            ELSE IF DisplayRaises(state)
            THEN EndRun(p, click, s, "exception", state, 0, NoCommand, shown)
            ELSE IF click = "refresh"
            THEN RefreshHandler(p, click, s, env, s.st)
            ELSE EndRun(p, click, s, "sleep", state, refresh_interval(p, state, task),
                        NoCommand,
                        [shown EXCEPT !.auto = TRUE, !.refresh = TRUE,
                                      !.confirm = RunPressed(click,
                                                     run_disabled(p, state, settings))
                                                  /\ ~delete_confirm_cb(p, click)])

\* One run of a settings page: pages/3_Check_Consistency.py or
\* pages/4_Delete_Profiles.py, which differ in the keys they edit.
RenderSettingsPage(p, click, env) ==
    LET cur == CurrentSettings(p)
        err == FetchError(p)
    IN  /\ CanClick(p, click)
        /\ IF ~secrets.url
           THEN ConfigError(p, click, env)
           ELSE IF cur = NoneValue
           THEN \E kind \in env.settings :
                    /\ LoadSettings(p, kind, env.trace)
                    /\ EndEarly(p, click, "rerun", RerunPending)
           ELSE IF err # NoneStr
           THEN IF click = "retry"
                THEN /\ SettingsAfter(p, NoneValue, err, Caches, ServerDoc(p),
                                      Traced(env.trace, PlainEvent("retry", p)))
                     /\ widgets' = NoWidgets
                     /\ EndEarly(p, click, "rerun", RerunPending)
                ELSE /\ UNCHANGED settingsVars
                     /\ \E keep \in env.stale : widgets' = StaleWidgets(p, keep)
                     /\ EndEarly(p, click, "stop", [NoControls EXCEPT !.retry = TRUE])
           ELSE IF ~Truthy(cur)
           THEN /\ UNCHANGED settingsVars
                /\ \E keep \in env.stale : widgets' = StaleWidgets(p, keep)
                /\ EndEarly(p, click, "stop", NoControls)
           ELSE IF FormRaises(p, cur)
           THEN /\ UNCHANGED settingsVars
                /\ \E keep \in env.stale : widgets' = StaleWidgets(p, keep)
                /\ EndEarly(p, click, "exception", NoControls)
           ELSE IF click = "save"
           THEN \E edit \in env.edits, sk \in env.save :
                    LET submitted == Submitted(p, cur, edit)
                        payload == SavePayload(p, cur, submitted)
                        stored == IF SaveStored(sk) THEN payload ELSE server_main
                        saved == save_main_settings_via_api(sk)
                    IN  /\ widgets' = WidgetsOf(p, submitted)
                        /\ IF saved
                           THEN /\ SettingsAfter(p, NoneValue, err,
                                                 cache_data_clear(p, Caches), stored,
                                                 Traced(env.trace,
                                                        SaveEvent(p, sk, TRUE, submitted,
                                                                  payload)))
                                /\ EndEarly(p, click, "rerun", RerunPending)
                           ELSE /\ SettingsAfter(p, cur, err, Caches, stored,
                                                 Traced(env.trace,
                                                        SaveEvent(p, sk, FALSE, submitted,
                                                                  payload)))
                                /\ SettingsPageControls(p, click, cur, env)
           ELSE /\ UNCHANGED settingsVars
                /\ widgets' = WidgetsOf(p, FormWidgets(p, cur))
                /\ SettingsPageControls(p, click, cur, env)

\* One run of pages/3_Check_Consistency.py.
RenderConsistency(click, env) ==
    /\ click \in {"open", "auto", "run", "stop", "refresh", "retry", "save"}
    /\ RenderSettingsPage(PageConsistency, click, env)

\* One run of pages/4_Delete_Profiles.py.
\* "tick" is a tick of the confirmation checkbox the run of a Run press showed.
RenderDelete(click, env) ==
    /\ click \in {"open", "auto", "run", "tick", "stop", "refresh", "retry", "save"}
    /\ RenderSettingsPage(PageDelete, click, env)

\* The TTL of an st.cache_data entry runs out.
CacheExpire ==
    \E c \in DOMAIN Caches :
        /\ Caches[c].hit
        /\ settings_log' = PlainEvent("expire", c)
        /\ cache_consistency' = CachesWith(c, NotCached).consistency
        /\ cache_delete' = CachesWith(c, NotCached).delete
        /\ cache_full_flow' = CachesWith(c, NotCached).config
        /\ cache_summary' = CachesWith(c, NotCached).summary
        /\ UNCHANGED <<consistency_current_settings, consistency_fetch_error,
                       delete_current_settings, delete_fetch_error,
                       full_flow_current_settings, full_flow_fetch_error,
                       server_main, server_full_flow,
                       page, sessionVars, widgets, ui, cycle, traceVars, worldVars>>

\* ------------------------------------------------------------ Full Flow Config page

MAX_THREADS == 4
MAX_PROFILES_CREATE == 10

\* The values of a settings document, by Python type.  A float is kept by its
\* value times ten, a list holds strings, a dict is a record of values.
VBool(b) == [t |-> "bool", b |-> b]
VInt(n) == [t |-> "int", n |-> n]
VFloat(tenths) == [t |-> "float", x |-> tenths]
VStr(str) == [t |-> "str", s |-> str]
VList(items) == [t |-> "list", l |-> items]
VDict(d) == [t |-> "dict", d |-> d]
VNull == [t |-> "null"]

\* A /settings/full_flow document with the keys of d.
ConfigDoc(d) == [kind |-> "dict", d |-> d]

\* The keys the form renders, each with the default settings_data.get falls
\* back to.
RenderedDefaults ==
    [full_flow_enabled |-> VBool(FALSE), threads |-> VInt(1), resume |-> VBool(FALSE),
     dev_mode |-> VBool(FALSE), profile_ids |-> VList(<<>>),
     create_profiles |-> VBool(FALSE), num_profiles |-> VInt(1), group_id |-> VStr(""),
     name_prefix |-> VStr(""), proxies |-> VList(<<>>), create_gmail |-> VBool(FALSE),
     recovery_emails |-> VList(<<>>), subscribe_newsletter |-> VBool(FALSE),
     newsletter_url |-> VStr(""), check_consistency |-> VBool(FALSE),
     pixelscan_check |-> VBool(FALSE), trust_score_check |-> VBool(FALSE),
     check_gmail_status |-> VBool(FALSE), sheet_name |-> VStr("Accounts Data")]
RenderedKeys == DOMAIN RenderedDefaults

\* The list keys rendered as a text area with one entry per line.
ListKeys == {"profile_ids", "proxies", "recovery_emails"}

\* '_'.join(map(str, key_path))
RECURSIVE JoinPath(_)
JoinPath(path) ==
    IF Len(path) = 1 THEN path[1] ELSE path[1] \o "_" \o JoinPath(Tail(path))

\* unique_key / widget_key of a key path.
WidgetKey(path) == "setting_" \o JoinPath(path)

\* str(value) of a list of strings and of None.
RECURSIVE ReprItems(_)
ReprItems(items) ==
    IF items = <<>> THEN ""
    ELSE "'" \o Head(items) \o "'" \o
         (IF Len(items) > 1 THEN ", " ELSE "") \o ReprItems(Tail(items))
StrOf(value) ==
    IF value.t = "list" THEN "[" \o ReprItems(value.l) \o "]" ELSE "None"

\* The widgets: a checkbox, a number_input holding an int or a float, a
\* text_area (kept by its lines) and a text_input; `on` is FALSE for a disabled
\* one.
Checkbox(b) == [w |-> "checkbox", b |-> b, on |-> TRUE]
NumberInput(n) == [w |-> "number", n |-> n, on |-> TRUE]
FloatInput(tenths) == [w |-> "float", x |-> tenths, on |-> TRUE]
TextArea(lines) == [w |-> "text_area", lines |-> lines, on |-> TRUE]
TextInput(str, on) == [w |-> "text", s |-> str, on |-> on]

\* render_setting: the widgets it creates, each with its key and first value.
RECURSIVE render_setting(_, _)
render_setting(key_path, value) ==
    LET key == key_path[Len(key_path)]
        one(widget) == {[key |-> WidgetKey(key_path), widget |-> widget]}
    IN  CASE value.t = "bool" -> one(Checkbox(value.b))
          [] value.t = "int" -> one(NumberInput(value.n))
          [] value.t = "float" -> one(FloatInput(value.x))
          [] value.t = "list" /\ key \in ListKeys -> one(TextArea(JoinedLines(value.l)))
          [] value.t = "str" -> one(TextInput(value.s, TRUE))
          [] value.t = "list" -> one(TextInput(StrOf(value), FALSE))
          [] value.t = "dict" ->
                 UNION { render_setting(Append(key_path, k), value.d[k]) :
                             k \in DOMAIN value.d }
          [] OTHER -> one(TextInput(StrOf(value), FALSE))

\* Whether render_setting raises: st.number_input on an int outside the bounds
\* the `threads` and `num_profiles` fields set.
RECURSIVE render_raises(_, _)
render_raises(key_path, value) ==
    LET key == key_path[Len(key_path)]
    IN  CASE value.t = "int" /\ key = "threads" -> value.n \notin 1..MAX_THREADS
          [] value.t = "int" /\ key = "num_profiles" ->
                 value.n \notin 1..MAX_PROFILES_CREATE
          [] value.t = "dict" ->
                 \E k \in DOMAIN value.d :
                     render_raises(Append(key_path, k), value.d[k])
          [] OTHER -> FALSE

\* settings_data.get(key, default) for a rendered key.
ConfigGet(doc, key) == IF key \in DOMAIN doc.d THEN doc.d[key] ELSE RenderedDefaults[key]

\* The widgets the form creates for a loaded document.
FormEntries(doc) ==
    UNION { render_setting(<<k>>, ConfigGet(doc, k)) : k \in RenderedKeys }

\* The form raises when a number_input does, or when two widgets get one key
\* (DuplicateWidgetID).
ConfigFormRaises(doc) ==
    \/ \E k \in RenderedKeys : render_raises(<<k>>, ConfigGet(doc, k))
    \/ \E e1, e2 \in FormEntries(doc) : e1.key = e2.key /\ e1 # e2

\* st.session_state after the form is rendered for the first time.
RenderForm(doc) ==
    LET entries == FormEntries(doc)
    IN  [wk \in {e.key : e \in entries} |->
            (CHOOSE e \in entries : e.key = wk).widget]

\* The form's widget values in this run: kept from the page's last run, else
\* created from the document.
ConfigFormWidgets(doc) ==
    IF widgets.page = PageConfig THEN widgets.values ELSE RenderForm(doc)

\* The values the form is submitted with: the user's edits reach the enabled
\* widgets they belong to.
ApplyEdit(form, edit) ==
    [wk \in DOMAIN form |->
        IF wk \in DOMAIN edit /\ form[wk].on /\ edit[wk].w = form[wk].w
        THEN edit[wk] ELSE form[wk]]

\* The conversions build_updated_settings applies to a widget value; "fails"
\* stands for the exception that makes it keep the original.  The texts the
\* model enters are no numerals, so int() and float() of a text fail.
Failed == [t |-> "fails"]
ToBool(widget) ==
    CASE widget.w = "checkbox" -> VBool(widget.b)
      [] widget.w = "number" -> VBool(widget.n # 0)
      [] widget.w = "float" -> VBool(widget.x # 0)
      [] widget.w = "text_area" -> VBool(widget.lines # <<>>)
      [] OTHER -> VBool(widget.s # "")
ToInt(widget) ==
    CASE widget.w = "checkbox" -> VInt(IF widget.b THEN 1 ELSE 0)
      [] widget.w = "number" -> VInt(widget.n)
      [] widget.w = "float" -> VInt(widget.x \div 10)
      [] OTHER -> Failed
ToFloat(widget) ==
    CASE widget.w = "checkbox" -> VFloat(IF widget.b THEN 10 ELSE 0)
      [] widget.w = "number" -> VFloat(widget.n * 10)
      [] widget.w = "float" -> VFloat(widget.x)
      [] OTHER -> Failed
ToLines(widget) ==
    CASE widget.w = "text_area" -> VList(IdsFromTextarea(widget.lines))
      [] widget.w = "text" -> VList(IdsFromTextarea(<<widget.s>>))
      [] OTHER -> Failed
ToStr(widget) ==
    CASE widget.w = "text" -> VStr(widget.s)
      [] widget.w = "checkbox" -> VStr(IF widget.b THEN "True" ELSE "False")
      [] OTHER -> VStr("<str of a number or text area>")
AsIs(widget) ==
    CASE widget.w = "checkbox" -> VBool(widget.b)
      [] widget.w = "number" -> VInt(widget.n)
      [] widget.w = "float" -> VFloat(widget.x)
      [] widget.w = "text_area" -> VStr("<text of a text area>")
      [] OTHER -> VStr(widget.s)

\* The leaf build_updated_settings writes for an original leaf whose widget key
\* is in st.session_state.
Collected(key, original, widget) ==
    LET got == CASE original.t = "bool" -> ToBool(widget)
                 [] original.t = "int" -> ToInt(widget)
                 [] original.t = "float" -> ToFloat(widget)
                 [] original.t = "list" /\ key \in ListKeys -> ToLines(widget)
                 [] original.t = "str" -> ToStr(widget)
                 [] OTHER -> AsIs(widget)
    IN  IF got = Failed THEN original ELSE got

\* build_updated_settings: the dict rebuilt from the original's keys and the
\* widget values in st.session_state (`state`).
RECURSIVE build_updated_settings(_, _, _)
build_updated_settings(original, key_path, state) ==
    [key \in DOMAIN original |->
        LET original_value == original[key]
            current_key_path == Append(key_path, key)
            widget_key == WidgetKey(current_key_path)
        IN  IF original_value.t = "dict"
            THEN VDict(build_updated_settings(original_value.d, current_key_path, state))
            ELSE IF widget_key \in DOMAIN state
            THEN Collected(key, original_value, state[widget_key])
            ELSE original_value]

\* save_full_flow_settings_via_api: whether the save counts as saved.
save_full_flow_settings_via_api(kind) == kind = "ok"

\* One run of pages/5_Full_Flow_Config.py.
RenderConfig(click, env) ==
    LET p == PageConfig
        cur == CurrentSettings(p)
        err == FetchError(p)
        shown == [NoControls EXCEPT !.save = TRUE, !.reload = TRUE]
    IN  /\ click \in {"open", "auto", "retry", "save", "reload"}
        /\ CanClick(p, click)
        /\ IF ~secrets.url
           THEN ConfigError(p, click, env)
           ELSE IF cur = NoneValue
           THEN \E kind \in env.settings :
                    /\ LoadSettings(p, kind, env.trace)
                    /\ EndEarly(p, click, "rerun", RerunPending)
           ELSE IF err # NoneStr
           THEN IF click = "retry"
                THEN /\ SettingsAfter(p, NoneValue, err, Caches, ServerDoc(p),
                                      Traced(env.trace, PlainEvent("retry", p)))
                     /\ widgets' = NoWidgets
                     /\ EndEarly(p, click, "rerun", RerunPending)
                ELSE /\ UNCHANGED settingsVars
                     /\ \E keep \in env.stale : widgets' = StaleWidgets(p, keep)
                     /\ EndEarly(p, click, "stop", [NoControls EXCEPT !.retry = TRUE])
           ELSE IF ~Truthy(cur)
           THEN /\ UNCHANGED settingsVars
                /\ \E keep \in env.stale : widgets' = StaleWidgets(p, keep)
                /\ EndEarly(p, click, "stop", NoControls)
           ELSE IF ConfigFormRaises(cur)
           THEN /\ UNCHANGED settingsVars
                /\ \E keep \in env.stale : widgets' = StaleWidgets(p, keep)
                /\ EndEarly(p, click, "exception", NoControls)
           ELSE IF click = "save"
           THEN \E edit \in env.config_edits, sk \in env.save :
                    LET submitted == ApplyEdit(ConfigFormWidgets(cur), edit)
                        payload == ConfigDoc(build_updated_settings(cur.d, <<>>, submitted))
                        stored == IF SaveStored(sk) THEN payload ELSE server_full_flow
                    IN  /\ widgets' = WidgetsOf(p, submitted)
                        /\ IF save_full_flow_settings_via_api(sk)
                           THEN /\ SettingsAfter(p, NoneValue, err,
                                                 cache_data_clear(p, Caches), stored,
                                                 Traced(env.trace,
                                                        SaveEvent(p, sk, TRUE, submitted,
                                                                  payload)))
                                /\ EndEarly(p, click, "rerun", RerunPending)
                           ELSE /\ SettingsAfter(p, cur, err, Caches, stored,
                                                 Traced(env.trace,
                                                        SaveEvent(p, sk, FALSE, submitted,
                                                                  payload)))
                                /\ EndEarly(p, click, "end", shown)
           ELSE IF click = "reload"
           THEN /\ SettingsAfter(p, NoneValue, err, cache_data_clear(p, Caches),
                                 server_full_flow,
                                 Traced(env.trace, PlainEvent("reload", p)))
                /\ widgets' = WidgetsOf(p, ConfigFormWidgets(cur))
                /\ EndEarly(p, click, "rerun", RerunPending)
           ELSE /\ UNCHANGED settingsVars
                /\ widgets' = WidgetsOf(p, ConfigFormWidgets(cur))
                /\ EndEarly(p, click, "end", shown)

\* ------------------------------------------------------------ Summary page

EmptyFrame == [kind |-> "frame", rows |-> 0]

\* fetch_summary_data_from_api without its cache: (DataFrame, message).  A
\* /profiles/summary response is "profiles" ({"profiles": [...]} with rows),
\* "empty" ({"profiles": []}), "invalid" (any other JSON) or the exception.
fetch_summary_data_from_api(kind) ==
    CASE kind = "profiles" -> [data |-> [kind |-> "frame", rows |-> 2], error |-> NoneStr]
      [] kind = "empty" ->
             [data |-> EmptyFrame, error |-> "No profile data found in the backend/sheet."]
      [] kind = "invalid" ->
             [data |-> EmptyFrame,
              error |-> "API Error: Invalid summary data format received from backend."]
      [] OTHER -> [data |-> EmptyFrame, error |-> "Error: " \o ExceptionName(kind)]

\* One run of 1_Summary_Dashboard.py: the cached fetch, then st.stop() when
\* there is a message and no row, else the views.
RenderSummary(env) ==
    \E kind \in env.summary :
        LET own == cache_summary
            f == IF own.hit THEN [data |-> own.data, error |-> own.error]
                 ELSE fetch_summary_data_from_api(kind)
            stops == f.error # NoneStr /\ f.data.rows = 0
        IN  IF ~secrets.url
            THEN ConfigError(PageSummary, "open", env)
            ELSE
            /\ cache_summary' = Cached(f)
            /\ settings_log' = Traced(env.trace,
                                      Event("load", PageSummary,
                                            IF own.hit THEN "cache" ELSE "network",
                                            IF own.hit THEN "-" ELSE kind,
                                            f.error = NoneStr, NoOutcome, NoWidgets,
                                            NoneValue))
            /\ widgets' = NoWidgets
            /\ UNCHANGED <<consistency_current_settings, consistency_fetch_error,
                           delete_current_settings, delete_fetch_error,
                           full_flow_current_settings, full_flow_fetch_error,
                           cache_consistency, cache_delete, cache_full_flow,
                           server_main, server_full_flow>>
            /\ EndEarly(PageSummary, "open", IF stops THEN "stop" ELSE "end", NoControls)

\* The backend's documents change under the dashboard: the operator edits the
\* YAML files or another session saves.
BackendChange(mains, configs) ==
    \E m \in mains, c \in configs :
        /\ <<m, c>> # <<server_main, server_full_flow>>
        /\ server_main' = m
        /\ server_full_flow' = c
        /\ UNCHANGED <<consistency_current_settings, consistency_fetch_error,
                       delete_current_settings, delete_fetch_error,
                       full_flow_current_settings, full_flow_fetch_error,
                       cache_consistency, cache_delete, cache_full_flow, cache_summary,
                       settings_log, page, sessionVars, widgets, ui, cycle, traceVars,
                       worldVars>>

\* ------------------------------------------------------------ inputs

BackendDoc(state, task) ==
    StatusResponse("dict", StatusDoc(state, task, "backend details", "t1"), "-")

\* /status answers the pages are run against: every lifecycle phase, each task
\* as the active one, a state outside the enumeration, a null state, a document
\* without `state`, JSON that is no document, and failed calls.
StatusAnswers ==
    { BackendDoc("idle", Null), BackendDoc("stopped", "full_flow"),
      BackendDoc("error", "consistency"), BackendDoc("unknown", Absent),
      BackendDoc("running", "full_flow"), BackendDoc("running", "consistency"),
      BackendDoc("running", "delete"), BackendDoc("starting", "consistency"),
      BackendDoc("stopping", "delete"), BackendDoc("paused", Null),
      BackendDoc(Null, Null),
      StatusResponse("dict", StatusDoc(Absent, "full_flow", Absent, "t1"),
                     "{'task': 'full_flow', 'last_update': 't1'}"),
      StatusResponse("other", NoBody, "[]"),
      StatusResponse("ConnectionError", NoBody, "-"),
      StatusResponse(JsonDecodeError, NoBody, "-") }

\* /status answers to the fetch a Run, Stop or Refresh handler makes.
HandlerStatusAnswers ==
    { BackendDoc("idle", Null), BackendDoc("starting", "consistency"),
      BackendDoc("running", "full_flow"), BackendDoc("stopping", "delete"),
      StatusResponse("ConnectionError", NoBody, "-") }

LogsAnswers ==
    { LogsResponse("logs", <<>>), LogsResponse("logs", <<"line 1">>),
      LogsResponse("other", <<>>), LogsResponse("ConnectionError", <<>>) }

ControlAnswers == {"ack", "ack_other", "http_error_json", "ConnectionError"}

Edits ==
    { [lines |-> <<"p1", " ">>, threads |-> 2, pixelscan |-> TRUE, trust |-> FALSE],
      [lines |-> <<>>, threads |-> 1, pixelscan |-> FALSE, trust |-> FALSE] }

InitialMainDoc == MainDoc(<<"p1">>, 1, TRUE, FALSE, <<"p1">>)

\* A /settings/full_flow document as the backend ships it, with a key the form
\* does not render.
InitialConfigDoc ==
    ConfigDoc([full_flow_enabled |-> VBool(TRUE), threads |-> VInt(2),
               profile_ids |-> VList(<<"p1">>), group_id |-> VStr("g1"),
               sheet_name |-> VStr("Accounts"), custom |-> VInt(7)])

\* The user changes no field of the Full Flow Config form, or some.
NoEdit == [wk \in {} |-> Checkbox(FALSE)]
ConfigEdits ==
    {NoEdit,
     [setting_group_id |-> TextInput("g2", TRUE), setting_threads |-> NumberInput(3)],
     [setting_profile_ids |-> TextArea(<<"p1", " p2 ">>)]}

\* The inputs of the polling and control specification.
PageEnv ==
    [status |-> StatusAnswers, status2 |-> HandlerStatusAnswers, logs |-> LogsAnswers,
     control |-> ControlAnswers, settings |-> {"json"}, edits |-> Edits,
     save |-> {"ok", "ConnectionError"}, stale |-> {FALSE}, trace |-> FALSE,
     config_edits |-> {NoEdit}, summary |-> {"profiles"}]

PageClicks == {"open", "auto", "run", "tick", "stop", "refresh"}

\* ------------------------------------------------------------ specification

Init ==
    /\ page = "none"
    /\ session_keys = {}
    /\ api_status = NoBody
    /\ api_logs = <<>>
    /\ consistency_current_settings = NoneValue
    /\ consistency_fetch_error = NoneStr
    /\ delete_current_settings = NoneValue
    /\ delete_fetch_error = NoneStr
    /\ full_flow_current_settings = NoneValue
    /\ full_flow_fetch_error = NoneStr
    /\ cache_consistency = NotCached
    /\ cache_delete = NotCached
    /\ cache_full_flow = NotCached
    /\ cache_summary = NotCached
    /\ server_main = InitialMainDoc
    /\ server_full_flow = InitialConfigDoc
    /\ widgets = NoWidgets
    /\ settings_log = NoEvent
    /\ ui = NoControls
    /\ cycle = NoCycle
    /\ lastPoll = NoPoll
    /\ lastLogs = NoLogs
    /\ lastControl = NoControl
    /\ secrets = Configured
    /\ worker = IdleWorker

Next ==
    \E click \in PageClicks :
        \/ RenderFullFlow(click, PageEnv)
        \/ RenderConsistency(click, PageEnv)
        \/ RenderDelete(click, PageEnv)

Spec == Init /\ [][Next]_vars

\* ------------------------------------------------------------ settings load and save

\* The /settings/main documents the backend can hold: two documents, JSON null
\* (an empty YAML file) and {}.
AltMainDoc == MainDoc(<<"p1", " p2 ">>, 2, FALSE, TRUE, <<>>)
SettingsMainDocs == {InitialMainDoc, AltMainDoc, NoneValue, EmptyDoc}

AltConfigDoc ==
    ConfigDoc([full_flow_enabled |-> VBool(FALSE), threads |-> VInt(1)])

IdleAnswer == BackendDoc("idle", Null)

\* The inputs of the settings specification: an idle worker, every outcome of a
\* settings fetch and of a save, and a user who edits the form or leaves it.
SettingsEnv ==
    [status |-> {IdleAnswer}, status2 |-> {IdleAnswer},
     logs |-> {LogsResponse("logs", <<>>)}, control |-> {"ack"},
     settings |-> {"json", "ConnectionError", JsonDecodeError},
     edits |-> Edits \cup {KeepWidgets},
     save |-> {"ok", "ok_not_json", "ConnectionError"}, stale |-> BOOLEAN, trace |-> TRUE,
     config_edits |-> ConfigEdits, summary |-> {"profiles", "ConnectionError"}]

\* The /settings/full_flow documents the backend can hold in that
\* specification.
SettingsConfigDocs == {InitialConfigDoc, AltConfigDoc, NoneValue, EmptyDoc}

SettingsClicks == {"open", "auto", "retry", "save", "reload"}

\* The session works on one settings page: the page it opened stays on screen.
StaysOn(p) == page \in {"none", p}

\* The settings specification: a session on one of the three settings pages,
\* while cache entries expire and the backend copy of the page's document
\* changes.
NextSettings ==
    \/ \E click \in SettingsClicks :
           \/ StaysOn(PageConsistency) /\ RenderConsistency(click, SettingsEnv)
           \/ StaysOn(PageDelete) /\ RenderDelete(click, SettingsEnv)
           \/ StaysOn(PageConfig) /\ RenderConfig(click, SettingsEnv)
    \/ CacheExpire
    \/ page # PageConfig /\ BackendChange(SettingsMainDocs, {server_full_flow})
    \/ page = PageConfig /\ BackendChange({server_main}, SettingsConfigDocs)

SpecSettings == Init /\ [][NextSettings]_vars

\* ------------------------------------------------------------ the caches of the four pages

\* The inputs of the cache specification: the backend answers every request,
\* and the user walks between the summary and the three settings pages.
CachesEnv ==
    [status |-> {IdleAnswer}, status2 |-> {IdleAnswer},
     logs |-> {LogsResponse("logs", <<>>)}, control |-> {"ack"},
     settings |-> {"json"}, edits |-> {KeepWidgets}, save |-> {"ok"},
     stale |-> {FALSE}, trace |-> TRUE,
     config_edits |-> {NoEdit}, summary |-> {"profiles", "empty"}]

NextCaches ==
    \/ \E click \in SettingsClicks :
           \/ RenderConsistency(click, CachesEnv)
           \/ RenderDelete(click, CachesEnv)
           \/ RenderConfig(click, CachesEnv)
    \/ RenderSummary(CachesEnv)

SpecCaches == Init /\ [][NextCaches]_vars

\* ------------------------------------------------------------ the Full Flow Config form

\* Documents of /settings/full_flow: list entries with surrounding whitespace
\* and an empty one; a list and a null under keys rendered read-only; a nested
\* document whose path joins to the key of a rendered field; a float and a
\* nested document under rendered keys; a count outside its field's bounds.
WhitespaceDoc ==
    ConfigDoc([threads |-> VInt(2), profile_ids |-> VList(<<"p1", " p2 ", " ">>)])
ReadOnlyDoc ==
    ConfigDoc([group_id |-> VList(<<"p1">>), newsletter_url |-> VNull,
               tags |-> VList(<<"p1">>)])
CollidingDoc ==
    ConfigDoc([group_id |-> VStr("g1"), group |-> VDict([id |-> VStr("x")])])
NestedDoc ==
    ConfigDoc([threads |-> VFloat(15), sheet_name |-> VDict([tab |-> VStr("t")]),
               retry |-> VDict([delay |-> VFloat(5), count |-> VInt(3)])])
OutOfBoundsDoc ==
    ConfigDoc([num_profiles |-> VInt(50), dev_mode |-> VBool(TRUE)])
ConfigDocs ==
    {InitialConfigDoc, AltConfigDoc, WhitespaceDoc, ReadOnlyDoc, CollidingDoc, NestedDoc,
     OutOfBoundsDoc}

ConfigEnv ==
    [status |-> {IdleAnswer}, status2 |-> {IdleAnswer},
     logs |-> {LogsResponse("logs", <<>>)}, control |-> {"ack"},
     settings |-> {"json"}, edits |-> {KeepWidgets}, save |-> {"ok", "ConnectionError"},
     stale |-> {FALSE}, trace |-> TRUE,
     config_edits |-> ConfigEdits, summary |-> {"profiles"}]

\* The form specification: the Full Flow Config page over the documents above.
NextConfig ==
    \/ \E click \in SettingsClicks : RenderConfig(click, ConfigEnv)
    \/ BackendChange({server_main}, ConfigDocs)

SpecConfig == Init /\ [][NextConfig]_vars

\* ------------------------------------------------------------ the secrets


\* The deployment's secrets.toml: each of the two secrets is set or missing.
\* It is written before the session starts.
SecretsChange ==
    /\ page = "none"
    /\ \E u \in BOOLEAN, k \in BOOLEAN :
           /\ [url |-> u, key |-> k] # secrets
           /\ secrets' = [url |-> u, key |-> k]
    /\ UNCHANGED <<page, sessionVars, settingsVars, widgets, ui, cycle, traceVars, worker>>

\* The secrets specification: the five pages under every combination of the
\* two secrets, the backend answering every request.
NextSecrets ==
    \/ SecretsChange
    \/ \E click \in SettingsClicks :
           \/ RenderFullFlow(click, CachesEnv)
           \/ RenderConsistency(click, CachesEnv)
           \/ RenderDelete(click, CachesEnv)
           \/ RenderConfig(click, CachesEnv)
    \/ RenderSummary(CachesEnv)

SpecSecrets == Init /\ [][NextSecrets]_vars

\* ------------------------------------------------------------ the shared document

\* The inputs of the shared-document specification: the backend answers every
\* request and stores every save, and the user edits the forms.
SharedEnv ==
    [status |-> {IdleAnswer}, status2 |-> {IdleAnswer},
     logs |-> {LogsResponse("logs", <<>>)}, control |-> {"ack"},
     settings |-> {"json"}, edits |-> Edits, save |-> {"ok"},
     stale |-> {FALSE}, trace |-> TRUE,
     config_edits |-> {NoEdit}, summary |-> {"profiles"}]

SharedClicks == {"open", "auto", "save"}

\* One session walking between the two pages that load and save /settings/main.
NextShared ==
    \E click \in SharedClicks :
        \/ RenderConsistency(click, SharedEnv)
        \/ RenderDelete(click, SharedEnv)

SpecShared == Init /\ [][NextShared]_vars

\* ------------------------------------------------------------ the worker

\* The worker of the backend: at rest, or in a phase of one of the three tasks.
Workers ==
    {IdleWorker} \cup
    {[state |-> st, task |-> t] : st \in ActiveStates \cup {"stopped"},
                                  t \in {TaskOf(p) : p \in Pages}}

\* The worker moves on: a task is started from another session, goes through
\* its phases or ends.
WorkerStep ==
    /\ \E w \in Workers : w # worker /\ worker' = w
    /\ UNCHANGED <<page, sessionVars, settingsVars, widgets, ui, cycle, traceVars, secrets>>

\* GET /status while the worker is as it is: the backend reports the worker, or
\* the request fails on the way.
WorkerAnswers ==
    {BackendDoc(worker.state, worker.task), StatusResponse("ConnectionError", NoBody, "-")}

\* The inputs of the worker specification: every poll of a run meets the
\* worker as it is when the run starts.
WorkerEnv ==
    [status |-> WorkerAnswers, status2 |-> WorkerAnswers,
     logs |-> {LogsResponse("logs", <<"line 1">>)}, control |-> {"ack"},
     settings |-> {"json"}, edits |-> {KeepWidgets}, save |-> {"ok"},
     stale |-> {FALSE}, trace |-> FALSE,
     config_edits |-> {NoEdit}, summary |-> {"profiles"}]

\* The three control pages in front of a worker that changes between runs.
NextWorker ==
    \/ WorkerStep
    \/ \E click \in PageClicks :
           \/ RenderFullFlow(click, WorkerEnv)
           \/ RenderConsistency(click, WorkerEnv)
           \/ RenderDelete(click, WorkerEnv)

SpecWorker == Init /\ [][NextWorker]_vars

\* ------------------------------------------------------------ the fetch functions alone

FetchStates == WorkerStates \cup {"paused", Null}
FetchTasks == {"full_flow", "consistency", "delete", Null, Absent}

\* /status answers for the fetch functions on their own: every state with every
\* task, with and without last_update; documents without `state`; JSON that is
\* no document; every exception.
FetchStatusAnswers ==
    { StatusResponse("dict", StatusDoc(st, t, "backend details", lu), "-") :
          st \in FetchStates, t \in FetchTasks, lu \in {"t1", Absent} }
    \cup { StatusResponse("dict", StatusDoc(Absent, "full_flow", Absent, "t1"),
                          "{'task': 'full_flow', 'last_update': 't1'}"),
           StatusResponse("dict", NoBody, "{}"),
           StatusResponse("other", NoBody, "[]"),
           StatusResponse("other", NoBody, "None") }
    \cup { StatusResponse(k, NoBody, "-") : k \in RequestExceptions \cup {JsonDecodeError} }

FetchLogsAnswers ==
    { LogsResponse("logs", <<>>), LogsResponse("logs", <<"line 1">>),
      LogsResponse("logs", <<"line 1", "line 2">>), LogsResponse("other", <<>>) }
    \cup { LogsResponse(k, <<>>) : k \in RequestExceptions \cup {JsonDecodeError} }

\* A call of fetch_status_from_api, recorded with the status it found (after the
\* function's own default for a session without one) and what it returned.
FetchStatusCall ==
    \E resp \in FetchStatusAnswers :
        LET hs == "api_status" \in session_keys
            f == fetch_status_from_api(hs, api_status, resp)
        IN  /\ api_status' = f.status
            /\ session_keys' = session_keys \cup {"api_status"}
            /\ lastPoll' = [called |-> TRUE, resp |-> resp,
                            before |-> IF hs THEN api_status ELSE ConnectingStatus,
                            after |-> f.status, ret |-> f.ret]
            /\ lastLogs' = NoLogs
            /\ lastControl' = NoControl
            /\ UNCHANGED <<page, api_logs, settingsVars, widgets, ui, cycle, worldVars>>

\* A call of fetch_logs_from_api, recorded with the buffer it found when it
\* issued the request and what it returned.
FetchLogsCall ==
    \E resp \in FetchLogsAnswers :
        LET hl == "api_logs" \in session_keys
            f == fetch_logs_from_api(hl, api_logs, resp)
        IN  /\ api_logs' = f.logs
            /\ session_keys' = session_keys \cup {"api_logs"}
            /\ lastLogs' = [called |-> TRUE, resp |-> resp,
                            before |-> IF hl THEN api_logs ELSE WaitingLogs,
                            after |-> f.logs, ret |-> f.ret]
            /\ lastPoll' = NoPoll
            /\ lastControl' = NoControl
            /\ UNCHANGED <<page, api_status, settingsVars, widgets, ui, cycle, worldVars>>

\* A call of send_control_command on one of the three control pages, recorded
\* with what it handed back.
ControlCall ==
    \E p \in Pages, kind \in ControlKinds :
        /\ lastControl' = [called |-> TRUE, page |-> p, kind |-> kind,
                           out |-> send_control_command(p, kind)]
        /\ lastPoll' = NoPoll
        /\ lastLogs' = NoLogs
        /\ UNCHANGED <<page, sessionVars, settingsVars, widgets, ui, cycle, worldVars>>

NextFetch == FetchStatusCall \/ FetchLogsCall

SpecFetch == Init /\ [][NextFetch]_vars

\* The control function on its own, between log fetches.
NextControl == ControlCall \/ FetchLogsCall

SpecControl == Init /\ [][NextControl]_vars

\* ------------------------------------------------------------ claims

HasStatus == "api_status" \in session_keys
HasLogs == "api_logs" \in session_keys

WellFormed(resp) == resp.kind = "dict" /\ resp.body.state # Absent
Malformed(resp) == resp.kind = "other" \/ (resp.kind = "dict" /\ resp.body.state = Absent)
TransportFailure(resp) == resp.kind \in {"ConnectionError", "ReadTimeout", "HTTPError"}

\* C1: the stored WorkerStatus.state is always one of unknown, idle, running,
\* starting, stopping, stopped, error; a /status document whose `state` is
\* outside this set is never stored verbatim.
C1_StateIsEnumerated == HasStatus => api_status.state \in WorkerStates

\* C2: after a poll whose payload is a document containing `state`, the stored
\* status equals the payload (no key of the previous status survives unless the
\* payload carries it) and the poll returned success.
C2_WellFormedPollReplaces ==
    (lastPoll.called /\ WellFormed(lastPoll.resp)) =>
        /\ api_status = lastPoll.resp.body
        /\ lastPoll.ret = TRUE

\* C2 witness: a well-formed payload without task and last_update arrived while
\* the stored status carried both, and neither survived.
C2_Witness ==
    /\ lastPoll.called /\ WellFormed(lastPoll.resp)
    /\ lastPoll.before.task = "full_flow" /\ lastPoll.before.last_update = "t1"
    /\ lastPoll.resp.body.task = Absent /\ lastPoll.resp.body.last_update = Absent
    /\ api_status.task = Absent /\ api_status.last_update = Absent

C4_FailedPollKeepsTask ==
    (lastPoll.called /\ TransportFailure(lastPoll.resp)) =>
        /\ api_status.state = "error"
        /\ api_status.task = lastPoll.before.task
        /\ api_status.last_update = lastPoll.before.last_update
        /\ api_status.details = "Status Fetch Fail: " \o ExceptionName(lastPoll.resp.kind)
        /\ lastPoll.ret = FALSE

\* C4 witness: the poll timed out while the status was running with task
\* consistency and a last_update, and both are still there.
C4_Witness ==
    /\ lastPoll.called /\ lastPoll.resp.kind = "ReadTimeout"
    /\ lastPoll.before.state = "running" /\ lastPoll.before.task = "consistency"
    /\ lastPoll.before.last_update = "t1"
    /\ api_status.state = "error" /\ api_status.task = "consistency"
    /\ api_status.last_update = "t1"

\* C5: after a log fetch that failed with a transport error (connection,
\* timeout, non-2xx), the LogBuffer equals the buffer the call found, and the
\* call returned failure.
C5_FailedLogFetchKeepsBuffer ==
    (lastLogs.called /\ TransportFailure(lastLogs.resp)) =>
        /\ api_logs = lastLogs.before
        /\ lastLogs.ret = FALSE

\* C5 witness: a non-2xx answer arrived while the buffer held fetched lines.
C5_Witness ==
    /\ lastLogs.called /\ lastLogs.resp.kind = "HTTPError"
    /\ lastLogs.before = <<"line 1", "line 2">>
    /\ api_logs = <<"line 1", "line 2">>

\* C6: on every polling page, whenever the state just fetched is running,
\* starting or stopping, the interval chosen for the next render is strictly less
\* than the interval the page chooses for idle, stopped, error and unknown,
\* whatever the task.
C6_ActiveIntervalShorter ==
    (cycle.end = "sleep" /\ api_status.state \in ActiveStates) =>
        \A idle \in WorkerStates \ ActiveStates, t \in FetchTasks :
            cycle.interval < refresh_interval(cycle.page, idle, Get(t))

\* C7 as stated: in any run a /logs request is issued only if the status just
\* fetched is active or the user asked for a manual refresh; when /status
\* returns idle no log fetch is issued automatically and the idle interval is
\* chosen.
C7_LogsOnlyWhenActiveOrManual ==
    /\ \A r \in cycle.reqs : r.state \in ActiveStates \/ r.why = "refresh"
    /\ (cycle.end = "sleep" /\ cycle.polled = "idle") =>
           (cycle.reqs = {} /\ cycle.interval = IdleInterval(cycle.page))

\* C7 amended: in any run a /logs request is issued only if the status just
\* fetched is active, the user asked for a manual refresh, or the run sent a
\* start or stop command (whose handler always refetches status and logs); when
\* /status returns idle and no control is pressed no log fetch is issued and the
\* idle interval is chosen.
C7_LogsOnlyWhenActiveManualOrCommand ==
    /\ \A r \in cycle.reqs :
           r.state \in ActiveStates \/ r.why = "refresh" \/ r.why = "control"
    /\ \A r \in cycle.reqs : r.why = "control" => cycle.sent.action # "none"
    /\ (cycle.end = "sleep" /\ cycle.polled = "idle") =>
           (cycle.reqs = {} /\ cycle.interval = IdleInterval(cycle.page))

\* C7 witness: a run sent a start command and fetched the logs although the
\* status its handler fetched was idle.
C7_Witness ==
    /\ cycle.sent.action = "start"
    /\ [why |-> "control", state |-> "idle"] \in cycle.reqs

\* C8: after any run whose poll yields idle or stopped, the LogBuffer is exactly
\* the single-line idle marker and no /logs request was issued, on every page
\* that displays the shared buffer.
C8_IdleMarkerAfterIdlePoll ==
    (cycle.end = "sleep" /\ cycle.polled \in {"idle", "stopped"}) =>
        /\ HasLogs /\ api_logs = <<IdleMarker>>
        /\ cycle.reqs = {}

\* C9: a start command is sent only in a run whose freshly fetched state is not
\* running, starting or stopping, and a run that believes the state active
\* leaves the Run control disabled.
C9_StartOnlyWhenNotActive ==
    /\ cycle.sent.action = "start" => cycle.polled \notin ActiveStates
    /\ (cycle.end = "sleep" /\ api_status.state \in ActiveStates) => ~ui.run

\* C9 witness: the Delete page sent `start delete` in a run that fetched idle.
C9_Witness ==
    /\ cycle.page = PageConsistency
    /\ cycle.sent.action = "start" /\ cycle.sent.task_type = "consistency"
    /\ cycle.polled = "idle"

\* C10 as stated: a page sends stop only when the believed state is active and
\* the believed task is the page's own TaskIdentity.
C10_StopOnlyOwnTask ==
    cycle.sent.action = "stop" =>
        /\ cycle.sent.belief.shown_state \in ActiveStates
        /\ cycle.sent.belief.shown_task = TaskOf(cycle.page)

\* C10 amended: a page sends stop only when the state it believed when the Stop
\* control was pressed is active; on the Check Consistency and Delete Profiles
\* pages the believed task is then the page's own, and those pages leave Stop
\* disabled while another task is active; the Run Full Flow page offers Stop for
\* whichever task is active.
C10_StopOnlyWhenBelievedActive ==
    /\ cycle.sent.action = "stop" =>
           /\ cycle.sent.belief.shown_state \in ActiveStates
           /\ cycle.page # PageFullFlow =>
                  cycle.sent.belief.shown_task = TaskOf(cycle.page)
    /\ (cycle.end = "sleep" /\ cycle.page # PageFullFlow /\ ui.stop) =>
           /\ api_status.state \in ActiveStates
           /\ Get(api_status.task) = TaskOf(cycle.page)
    /\ (cycle.end = "sleep" /\ cycle.page = PageFullFlow /\ ui.stop) =>
           api_status.state \in ActiveStates

\* C10 witness: the Run Full Flow page sent stop while it believed the
\* consistency task to be running.
C10_Witness ==
    /\ cycle.page = PageFullFlow
    /\ cycle.sent.action = "stop"
    /\ cycle.sent.belief.shown_state = "running"
    /\ cycle.sent.belief.shown_task = "consistency"

\* C11: every start follows the order marker line, command, one poll and one
\* log fetch before the next render, whether the command succeeded or failed:
\* a run that sent start ends in st.rerun() having issued exactly one /logs
\* request from its handler, and when the handler's poll stored state starting
\* with the page's own task the stored status makes is_this_task_running true.
C11_StartThenPollAndLogs ==
    cycle.sent.action = "start" =>
        /\ cycle.end = "rerun"
        /\ Cardinality({r \in cycle.reqs : r.why = "control"}) = 1
        /\ (api_status.state = "starting" /\ Get(api_status.task) = TaskOf(cycle.page)) =>
               is_this_task_running(cycle.page, api_status.state, Get(api_status.task))

\* The HTTP outcomes C12 names: a 2xx JSON acknowledgement, a non-2xx answer
\* with a JSON {"error": ...} body, a non-2xx answer with another body, a
\* connection error and a timeout.
C12Outcomes == {"ack", "http_error_json", "http_error_text", "ConnectionError", "ReadTimeout"}

\* C12: for each of these outcomes, on each of the three control pages,
\* send_control_command returns a (value, error) pair with exactly one of the
\* two present, and the handler that unpacks it does not raise.
C12_ControlReturnsPair ==
    (lastControl.called /\ lastControl.kind \in C12Outcomes) =>
        /\ lastControl.out.ret = "pair"
        /\ (lastControl.out.value # NoneStr) # (lastControl.out.error # NoneStr)
        /\ ~HandlerRaises(lastControl.out)

\* ------------------------------------------------------------ claims on settings load and save

SettingsPagesAll == {PageConsistency, PageDelete, PageConfig}

\* The last event is a load by a settings page that follows a successful save
\* of the same page.
LoadAfterSave ==
    /\ settings_log.op = "load"
    /\ settings_log.page \in SettingsPagesAll
    /\ settings_log.prev = [op |-> "save", page |-> settings_log.page, ok |-> TRUE]

\* C13: the load that follows a successful save of a settings document goes to
\* the network, whatever the cache and the session held before the save, and
\* when it succeeds the page's session copy is the document of the response.
C13_LoadAfterSaveFetches ==
    LoadAfterSave =>
        /\ settings_log.via = "network"
        /\ settings_log.before.cur = NoneValue
        /\ settings_log.ok =>
               /\ settings_log.kind = "json"
               /\ CurrentSettings(settings_log.page) = settings_log.out.data

\* A load after a save brought a document that another writer had stored in the
\* meantime.
C13_Witness ==
    /\ LoadAfterSave
    /\ settings_log.ok
    /\ settings_log.page = PageConsistency
    /\ CurrentSettings(PageConsistency) = AltMainDoc

\* The document a Save press on page p posts for the loaded settings and the
\* widget values.
PostedBy(p, settings, values) ==
    IF p = PageConfig
    THEN ConfigDoc(build_updated_settings(settings.d, <<>>, values))
    ELSE SavePayload(p, settings, values)

FailedSave ==
    /\ settings_log.op = "save"
    /\ ~settings_log.ok

\* C14: a save that fails leaves the page's session copy, its fetch error and
\* every cache entry as they were, and the form keeps the submitted values, so
\* that pressing Save again posts the same document.
C14_FailedSaveKeepsClient ==
    FailedSave =>
        LET p == settings_log.page
        IN  /\ CurrentSettings(p) = settings_log.before.cur
            /\ FetchError(p) = settings_log.before.err
            /\ Caches = settings_log.before.caches
            /\ widgets.page = p
            /\ widgets.values = settings_log.submitted
            /\ PostedBy(p, CurrentSettings(p), widgets.values) = settings_log.payload

\* A save of edited fields failed.
C14_Witness ==
    /\ FailedSave
    /\ settings_log.page = PageConfig
    /\ settings_log.before.widgets.page = PageConfig
    /\ settings_log.submitted # settings_log.before.widgets.values
    /\ settings_log.payload # settings_log.before.cur

\* The last event is a load by a settings page right after a load of the same
\* page that failed.
LoadAfterFailedLoad ==
    /\ settings_log.op = "load"
    /\ settings_log.page \in SettingsPagesAll
    /\ settings_log.prev = [op |-> "load", page |-> settings_log.page, ok |-> FALSE]

\* C15: the fetch cache of a settings page holds successful results only, and
\* the load that follows a failed load goes to the network.
C15_OnlySuccessesCached ==
    /\ \A p \in SettingsPagesAll : CacheOf(p).hit => CacheOf(p).error = NoneStr
    /\ LoadAfterFailedLoad => settings_log.via = "network"

\* C16: the outcome of every load of a settings page holds a document or an
\* error and never both or neither, and the session never holds a document
\* together with a fetch error.
C16_DocumentXorError ==
    /\ (settings_log.op = "load" /\ settings_log.page \in SettingsPagesAll) =>
           (settings_log.out.data # NoneValue) # (settings_log.out.error # NoneStr)
    /\ \A p \in SettingsPagesAll :
           ~(CurrentSettings(p) # NoneValue /\ FetchError(p) # NoneStr)

\* The last event is a successful save or a manual reload of a settings page.
SavedOrReloaded ==
    /\ settings_log.op \in {"save", "reload"}
    /\ settings_log.ok
    /\ settings_log.page \in SettingsPagesAll

\* The backend document a cache entry holds: the two pages on /settings/main
\* cache the same document.
DocumentOf(c) == IF c \in {PageConsistency, PageDelete} THEN "main" ELSE c

\* C17: a successful save or a manual reload on a settings page empties the
\* cache of that page's fetch function and leaves the cache entries of the
\* other documents, the other settings document's and the profile summary's,
\* as they were.
C17_SaveClearsOwnCacheOnly ==
    SavedOrReloaded =>
        /\ ~Caches[settings_log.page].hit
        /\ \A c \in DOMAIN Caches :
               DocumentOf(c) # DocumentOf(settings_log.page) =>
                   Caches[c] = settings_log.before.caches[c]

\* ------------------------------------------------------------ claims on the Full Flow Config form

\* The last event is a Save press on the Full Flow Config page.
ConfigSave ==
    /\ settings_log.op = "save"
    /\ settings_log.page = PageConfig

\* The Save press came with the fields as the form rendered them from the
\* loaded document.
SavedUnedited ==
    /\ ConfigSave
    /\ settings_log.submitted = RenderForm(settings_log.before.cur)

\* C18: a document that is rendered and collected with no edit comes back equal
\* to itself, and every document can be rendered.
C18_RenderCollectIsIdentity ==
    /\ SavedUnedited => settings_log.payload = settings_log.before.cur
    /\ (page = PageConfig /\ full_flow_current_settings # NoneValue) =>
           cycle.end # "exception"

\* The leaves of b have the Python types of the leaves of a, level by level.
RECURSIVE SameTypes(_, _)
SameTypes(a, b) ==
    \A k \in DOMAIN a :
        /\ k \in DOMAIN b
        /\ b[k].t = a[k].t
        /\ a[k].t = "dict" => SameTypes(a[k].d, b[k].d)

\* C19: every leaf of the document a Save press collects has the type of the
\* loaded document's leaf, whatever the fields hold.
C19_CollectKeepsTypes ==
    ConfigSave => SameTypes(settings_log.before.cur.d, settings_log.payload.d)

\* b has the keys of a at every level.
RECURSIVE SameKeys(_, _)
SameKeys(a, b) ==
    /\ DOMAIN a = DOMAIN b
    /\ \A k \in DOMAIN a :
           a[k].t = "dict" => (b[k].t = "dict" /\ SameKeys(a[k].d, b[k].d))

\* C20: the document a Save press collects has the keys of the loaded document
\* at every level, and what lies under a top-level key the form does not render
\* is the loaded value.
C20_CollectKeepsKeysAndUnrendered ==
    ConfigSave =>
        LET loaded == settings_log.before.cur.d
            sent == settings_log.payload.d
        IN  /\ SameKeys(loaded, sent)
            /\ \A k \in DOMAIN loaded \ RenderedKeys : sent[k] = loaded[k]

\* ------------------------------------------------------------ claims on bounds, errors and controls

\* The value under key of a posted document is an int within lo..hi.
BoundedInt(doc, key, lo, hi) ==
    key \in DOMAIN doc => (doc[key].t = "int" /\ doc[key].n \in lo..hi)

\* C21: every document the Full Flow Config page posts has an integer within
\* 1..MAX_THREADS under `threads` and an integer within 1..MAX_PROFILES_CREATE
\* under `num_profiles`, whatever the loaded document held there.
C21_SavedCountsWithinBounds ==
    ConfigSave =>
        /\ BoundedInt(settings_log.payload.d, "threads", 1, MAX_THREADS)
        /\ BoundedInt(settings_log.payload.d, "num_profiles", 1, MAX_PROFILES_CREATE)

\* The last run was the Summary page over the answer {"profiles": []}.
EmptySummaryShown ==
    /\ cycle.page = PageSummary
    /\ cache_summary.hit
    /\ cache_summary.data.rows = 0
    /\ cache_summary.error = "No profile data found in the backend/sheet."

\* C22: over an empty profile list the Summary page runs to its end with the
\* "no data" note; it is not halted the way a failed fetch halts it.
C22_EmptySummaryIsNotAnError ==
    EmptySummaryShown => cycle.end # "stop"

\* Whether the last script run issued an HTTP request: a status poll, a log
\* fetch, a control command, or a settings or summary call that went to the
\* network.
RunMadeRequest ==
    \/ cycle.polled # "-"
    \/ cycle.reqs # {}
    \/ cycle.sent.action # "none"
    \/ settings_log # NoEvent

\* C23: when SIGNUP_API_URL or SIGNUP_API_KEY is not configured, a page run
\* ends in the fatal configuration error (st.stop()) before any HTTP request.
C23_NoRequestWithoutSecrets ==
    (cycle.page # "none" /\ (~secrets.url \/ ~secrets.key)) =>
        (cycle.end = "stop" /\ ~RunMadeRequest)

\* The half of C23 that holds: without SIGNUP_API_URL every run stops at the
\* config check with no request made.
C23_NoRequestWithoutUrl ==
    (cycle.page # "none" /\ ~secrets.url) => (cycle.end = "stop" /\ ~RunMadeRequest)

\* C24: a press of "Refresh Status & Logs" issues a /logs request whatever the
\* state its status poll has just returned, active or not.
C24_RefreshAlwaysFetchesLogs ==
    (cycle.click = "refresh" /\ cycle.end = "rerun") =>
        \E r \in cycle.reqs : r.why = "refresh"

\* C25: after a failed settings load the page shows the error with the Retry
\* Loading control and stops: the load that follows a failed load of the page
\* is made by a run the user started, never by a rerun the page scheduled.
C25_FailedLoadWaitsForUser ==
    (LoadAfterFailedLoad /\ cycle.page = settings_log.page) => cycle.click # "auto"

\* The Retry Loading control is never on screen.
C25_RetryNeverShown == ~ui.retry

\* The keys of /settings/main each page's form edits.
ConsistencyKeys ==
    {"profiles_score_check", "score_check_threads", "pixelscan_check", "trust_score_check"}
DeleteKeys == {"profiles_to_delete"}
KeysOf(p) == IF p = PageConsistency THEN ConsistencyKeys ELSE DeleteKeys

\* C26: no lost update on /settings/main within one session: a save from the
\* Delete Profiles page changes no key of the backend document that the Check
\* Consistency page edits (it never writes back an older value of them), and
\* a save from the Check Consistency page changes no key of the Delete page.
C26_SaveKeepsOtherPagesKeys ==
    [][\A p \in {PageConsistency, PageDelete} :
           (cycle'.page = p /\ cycle'.click = "save" /\ server_main' # server_main) =>
               \A k \in (ConsistencyKeys \cup DeleteKeys) \ KeysOf(p) :
                   server_main'[k] = server_main[k]]_vars

\* C27: the log buffer of the session always holds at least one line, and no
\* run of the Run Full Flow page ends in an exception on the test of its first
\* line.
C27_LogBufferNeverEmpty ==
    /\ "api_logs" \in session_keys => Len(api_logs) >= 1
    /\ (cycle.page = PageFullFlow /\ cycle.polled \in {"idle", "stopped"}) =>
           cycle.end # "exception"

\* C29: on the Delete Profiles page a confirmed deletion can be started: with a
\* saved profiles_to_delete list and an idle worker, the tick of the
\* confirmation checkbox that a press of Run Deletion Script showed sends the
\* start command of the delete task.
C29_ConfirmedDeletionStarts ==
    (cycle.page = PageDelete /\ cycle.click = "tick" /\ cycle.polled = "idle") =>
        (cycle.sent.action = "start" /\ cycle.sent.task_type = "delete")

\* No run of the Delete page sends a start command.
C29_DeleteNeverStarts ==
    cycle.page = PageDelete => cycle.sent.action # "start"

\* C28: a start command is never sent while the worker is running, starting or
\* stopping, whatever the polls returned: a script run (a step that leaves the
\* worker as it is) that sends start meets a worker that is not active.
C28_NoStartWhileWorkerActive ==
    [][(worker' = worker /\ cycle'.sent.action = "start") =>
           worker.state \notin ActiveStates]_vars

\* The part of C28 that holds: a run whose poll reached the backend sends start
\* only to a worker that is not active.
C28_NoStartAfterAnsweredPoll ==
    [][(worker' = worker /\ cycle'.sent.action = "start" /\
        cycle'.polled = worker.state) =>
           worker.state \notin ActiveStates]_vars

\* C30: every value the user enters in a field the Full Flow Config form
\* renders is in the document the Save posts, also when the field was rendered
\* from its default because the loaded document lacks the key: a rendered
\* field submitted with a value other than the one it was rendered with has
\* its key in the posted document.
C30_EditsReachSavedDocument ==
    ConfigSave =>
        \A k \in RenderedKeys :
            LET wk == WidgetKey(<<k>>)
                shown == RenderForm(settings_log.before.cur)
            IN  (/\ wk \in DOMAIN settings_log.submitted
                 /\ wk \in DOMAIN shown
                 /\ settings_log.submitted[wk] # shown[wk]) =>
                    k \in DOMAIN settings_log.payload.d

====
